---------------------------- MODULE Spec2Model ----------------------------
(***************************************************************************)
(* DataCleaner (src/cleaner.py) as a state machine.                        *)
(*                                                                         *)
(* A text value is a sequence of one-character strings.  A cell of the     *)
(* table is <<>> (null) or <<v>> (the value v).  A numeric cell holds an   *)
(* integer; incomes are the Float64 values with no fractional part.  The   *)
(* table is a bag of rows: no operation of the class reads the row order,  *)
(* and DataFrame.unique() leaves it unspecified.                           *)
(***************************************************************************)
EXTENDS Integers, Sequences, FiniteSets, Bags, TLC

(* ------------------------------ bounds --------------------------------- *)
MaxRows == 4
MaxRuns == 2
MaxCallRows == 2

(* ------------------------- program constants --------------------------- *)
min_year == 1900
max_year == 2025
Int32Max == 2147483647

(* ------------------------------- text ---------------------------------- *)
Lower == <<"a","b","c","d","e","f","g","h","i","j","k","l","m",
           "n","o","p","q","r","s","t","u","v","w","x","y","z">>
Upper == <<"A","B","C","D","E","F","G","H","I","J","K","L","M",
           "N","O","P","Q","R","S","T","U","V","W","X","Y","Z">>
Digits == <<"0","1","2","3","4","5","6","7","8","9">>
Range(s) == {s[i] : i \in DOMAIN s}

Whitespace == {" ", "\t", "\n", "\r"}

Letters == Range(Lower) \cup Range(Upper)
UpperLetters == Range(Upper)
LowerLetters == Range(Lower)

\* \w of the regex: a letter, a digit or the underscore
WordChars == Letters \cup Range(Digits) \cup {"_"}
\* [\w\.-] of the regex
LocalChars == WordChars \cup {".", "-"}

IndexIn(s, c) == CHOOSE i \in DOMAIN s : s[i] = c

ToLowerChar(c) == IF c \in UpperLetters THEN Lower[IndexIn(Upper, c)] ELSE c

ToUpperChar(c) == IF c \in LowerLetters THEN Upper[IndexIn(Lower, c)] ELSE c

to_lowercase(s) == [i \in 1..Len(s) |-> ToLowerChar(s[i])]
to_uppercase(s) == [i \in 1..Len(s) |-> ToUpperChar(s[i])]

SetMin(S) == CHOOSE x \in S : \A y \in S : x <= y
SetMax(S) == CHOOSE x \in S : \A y \in S : x >= y

\* str.strip_chars(): removes the leading and the trailing whitespace
strip_chars(s) ==
    LET keep == {i \in 1..Len(s) : s[i] \notin Whitespace}
    IN  IF keep = {} THEN <<>> ELSE SubSeq(s, SetMin(keep), SetMax(keep))

AllIn(s, lo, hi, C) == \A i \in lo..hi : s[i] \in C

\* str.contains(r"^[\w\.-]+@[\w\.-]+\.\w+$"): an anchored match, so the
\* whole text is local "@" domain "." tld with the three parts non-empty
EmailMatches(s) ==
    \E a \in 2..Len(s) : \E d \in (a + 2)..(Len(s) - 1) :
        /\ s[a] = "@"
        /\ s[d] = "."
        /\ AllIn(s, 1, a - 1, LocalChars)
        /\ AllIn(s, a + 1, d - 1, LocalChars)
        /\ AllIn(s, d + 1, Len(s), WordChars)

(* ------------------------------ numbers -------------------------------- *)
IsIntText(s) == Len(s) > 0 /\ AllIn(s, 1, Len(s), Range(Digits))

\* digits "." zeros: the text of a float with no fractional part
IsFloatText(s) ==
    \/ IsIntText(s)
    \/ \E d \in 2..(Len(s) - 1) :
          /\ s[d] = "."
          /\ AllIn(s, 1, d - 1, Range(Digits))
          /\ AllIn(s, d + 1, Len(s), {"0"})

DigitVal(c) == CHOOSE d \in 0..9 : Digits[d + 1] = c

RECURSIVE TextToInt(_)
TextToInt(s) ==
    IF Len(s) = 0 THEN 0
    ELSE 10 * TextToInt(SubSeq(s, 1, Len(s) - 1)) + DigitVal(s[Len(s)])

IntPart(s) ==
    IF \E d \in 1..Len(s) : s[d] = "."
    THEN SubSeq(s, 1, (CHOOSE d \in 1..Len(s) : s[d] = ".") - 1)
    ELSE s

TextToFloat(s) == TextToInt(IntPart(s))

RECURSIVE IntToText(_)
IntToText(n) ==
    IF n < 10 THEN <<Digits[n + 1]>>
    ELSE IntToText(n \div 10) \o <<Digits[(n % 10) + 1]>>

FloatToText(x) == IntToText(x) \o <<".", "0">>


(* ------------------------------- cells --------------------------------- *)
Null == <<>>
Some(v) == <<v>>
IsNull(c) == c = <<>>

\* the string expressions applied to a cell: null stays null
StripCell(c) == IF IsNull(c) THEN Null ELSE Some(strip_chars(c[1]))
LowerCell(c) == IF IsNull(c) THEN Null ELSE Some(to_lowercase(c[1]))
UpperCell(c) == IF IsNull(c) THEN Null ELSE Some(to_uppercase(c[1]))

(* ------------------------------- bags ---------------------------------- *)
RECURSIVE SumCounts(_, _)
SumCounts(B, S) ==
    IF S = {} THEN 0
    ELSE LET x == CHOOSE y \in S : TRUE
         IN  B[x] + SumCounts(B, S \ {x})

\* DataFrame.filter: the rows `keep`, on which the predicate is true
FilterBag(B, keep) == [r \in keep |-> B[r]]

\* DataFrame.with_columns: every row r rewritten to f[r], the copies kept
MapBag(B, f) ==
    LET pairs == {<<r, f[r]>> : r \in DOMAIN B}
    IN  [y \in {p[2] : p \in pairs} |->
            SumCounts(B, {p[1] : p \in {q \in pairs : q[2] = y}})]

Height(B) == BagCardinality(B)

(* ------------------------------ the file ------------------------------- *)
\* the columns read_csv types as numbers when every cell parses as one
ColType(file, f) ==
    LET cells == {r[f][1] : r \in {x \in DOMAIN file : ~IsNull(x[f])}}
    IN  IF cells = {} THEN "String"
        ELSE IF \A c \in cells : IsIntText(c) THEN "Int64"
        ELSE IF \A c \in cells : IsFloatText(c) THEN "Float64"
        ELSE "String"

InferSchema(file) ==
    [birth_year |-> ColType(file, "birth_year"), income |-> ColType(file, "income")]

ParseCell(c, dtype) ==
    IF IsNull(c) \/ dtype = "String" THEN c ELSE Some(TextToFloat(c[1]))

\* pl.read_csv: the rows of the file with the numeric columns parsed
read_csv(file) ==
    LET sch == InferSchema(file)
    IN  MapBag(file, [r \in DOMAIN file |->
                        [r EXCEPT !.birth_year = ParseCell(@, sch.birth_year),
                                  !.income = ParseCell(@, sch.income)]])

FormatCell(c, dtype) ==
    IF IsNull(c) \/ dtype = "String" THEN c
    ELSE IF dtype = "Float64" THEN Some(FloatToText(c[1]))
    ELSE Some(IntToText(c[1]))

\* DataFrame.write_csv: every number written as text
write_csv(t, sch) ==
    MapBag(t, [r \in DOMAIN t |->
                 [r EXCEPT !.birth_year = FormatCell(@, sch.birth_year),
                           !.income = FormatCell(@, sch.income)]])

(* --------------------------- the operations ---------------------------- *)
Required ==
    {"id", "first_name", "last_name", "email", "birth_year", "country", "gender", "income"}

valid_genders == {<<"m","a","l","e">>, <<"f","e","m","a","l","e">>, <<"o","t","h","e","r">>}

\* DataFrame.drop_nulls(subset): the rows with no null in a required column
drop_nulls_df(t) == FilterBag(t, {r \in DOMAIN t : \A f \in Required : ~IsNull(r[f])})

\* mutant: one copy of every duplicated row removed, not all but one
unique_once(t) == [r \in DOMAIN t |-> IF t[r] > 1 THEN t[r] - 1 ELSE 1]

\* DataFrame.unique(): one copy of every row
unique(t) == [r \in DOMAIN t |-> 1]

NormalizeName(c) == LowerCell(StripCell(c))

\* mutant: country lowercased with the names
clean_names_all(t) ==
    MapBag(t, [r \in DOMAIN t |-> [r EXCEPT !.first_name = NormalizeName(@),
                                             !.last_name = NormalizeName(@),
                                             !.country = NormalizeName(@)]])

clean_names_df(t) ==
    MapBag(t, [r \in DOMAIN t |-> [r EXCEPT !.first_name = NormalizeName(@),
                                             !.last_name = NormalizeName(@)]])

\* a null email gives a null predicate, which filter reads as false
clean_email_df(t) ==
    FilterBag(t, {r \in DOMAIN t : ~IsNull(r.email) /\ EmailMatches(r.email[1])})

\* cast(pl.Int32), strict: a text must be an integer's, the value must fit
CastableInt32(c, dtype) ==
    \/ IsNull(c)
    \/ dtype = "String" /\ IsIntText(c[1]) /\ TextToInt(c[1]) <= Int32Max
    \/ dtype # "String" /\ c[1] <= Int32Max

CastCell(c, dtype) ==
    IF IsNull(c) THEN c
    ELSE IF dtype = "String" THEN Some(TextToFloat(c[1]))
    ELSE c

BirthYearCastable(t, sch) ==
    \A r \in DOMAIN t : CastableInt32(r.birth_year, sch.birth_year)

CastBirthYear(t, sch) ==
    MapBag(t, [r \in DOMAIN t |-> [r EXCEPT !.birth_year = CastCell(@, sch.birth_year)]])

\* mutant: the upper bound not tested
InYearRangeNoUpper(y, lo, hi) == y >= lo

InYearRange(y, lo, hi) == y >= lo /\ y <= hi

FilterBirthYear(t, lo, hi) ==
    FilterBag(t, {r \in DOMAIN t :
                    ~IsNull(r.birth_year) /\ InYearRange(r.birth_year[1], lo, hi)})

\* cast(pl.Float64), strict: a text must be a number's
CastableFloat64(c, dtype) ==
    IsNull(c) \/ dtype # "String" \/ IsFloatText(c[1])

IncomeCastable(t, sch) ==
    \A r \in DOMAIN t : CastableFloat64(r.income, sch.income)

CastIncome(t, sch) ==
    MapBag(t, [r \in DOMAIN t |-> [r EXCEPT !.income = CastCell(@, sch.income)]])

\* the non-null incomes of the table, every copy counted
Incomes(t) ==
    LET rows == {r \in DOMAIN t : ~IsNull(r.income)}
        vals == {r.income[1] : r \in rows}
    IN  [v \in vals |-> SumCounts(t, {r \in rows : r.income[1] = v})]

RECURSIVE SortedSeq(_)
SortedSeq(B) ==
    IF DOMAIN B = {} THEN <<>>
    ELSE LET m == SetMin(DOMAIN B)
             rest == IF B[m] = 1 THEN [v \in DOMAIN B \ {m} |-> B[v]]
                     ELSE [B EXCEPT ![m] = @ - 1]
         IN  <<m>> \o SortedSeq(rest)

\* mutant: the index truncated, not rounded
LowerIdx(n, num, den) == (num * (n - 1)) \div den

\* Expr.quantile(q) with its default interpolation, "nearest": the order
\* statistic at the index (n - 1) * q rounded, a half rounding up; q = num/den
NearestIdx(n, num, den) == (2 * num * (n - 1) + den) \div (2 * den)

quantile(B, num, den) ==
    LET s == SortedSeq(B)
    IN  s[NearestIdx(Len(s), num, den) + 1]

\* twice lower_bound and twice upper_bound, so that 1.5 * iqr is a whole number
Lower2(q1, q3) == 2 * q1 - 3 * (q3 - q1)
Upper2(q1, q3) == 2 * q3 + 3 * (q3 - q1)

InFence(x, q1, q3) == 2 * x >= Lower2(q1, q3) /\ 2 * x <= Upper2(q1, q3)

FilterIncome(t, q1, q3) ==
    FilterBag(t, {r \in DOMAIN t : ~IsNull(r.income) /\ InFence(r.income[1], q1, q3)})

NormalizeCountry(c) == UpperCell(StripCell(c))
NormalizeGender(c) == LowerCell(StripCell(c))

GenderValid(c) == ~IsNull(c) /\ c[1] \in valid_genders

standardize_df(t) ==
    LET m == MapBag(t, [r \in DOMAIN t |-> [r EXCEPT !.country = NormalizeCountry(@),
                                                     !.gender = NormalizeGender(@)]])
    IN  FilterBag(m, {r \in DOMAIN m : GenderValid(r.gender)})

(* ------------------------------- state --------------------------------- *)
VARIABLES
    inp,      \* the rows of the file the DataCleaner was built on
    df,       \* self.df
    schema,   \* the dtypes of the columns the code casts
    driver,   \* "pipeline": run_cleaning_pipeline; "direct": the caller's own calls
    pc,       \* the call run_cleaning_pipeline makes next, "done" or "aborted"
    steps,    \* the calls run_cleaning_pipeline has made, in order
    last,     \* the method called last
    err,      \* what the last call raised, "" when it returned
    fence,    \* q1 and q3 of the last clean_income that computed them
    out,      \* the rows of the file save wrote, <<>> while there is none
    run       \* the number of DataCleaner objects built so far

vars == <<inp, df, schema, driver, pc, steps, last, err, fence, out, run>>

\* the calls of run_cleaning_pipeline, in its order
Order ==
    <<"initial_summary", "drop_nulls", "remove_duplicates", "clean_names", "clean_email",
      "clean_birth_year", "clean_income", "standardize_country_gender", "save">>

\* mutant: the call to remove_duplicates left out
SuccNoDedup(m) ==
    LET i == CHOOSE j \in DOMAIN Order : Order[j] = m
    IN  IF i = Len(Order) THEN "done"
        ELSE IF Order[i + 1] = "remove_duplicates" THEN Order[i + 2]
        ELSE Order[i + 1]

\* mutant: standardize_country_gender called before clean_income
SuccGenderFirst(m) ==
    CASE m = "clean_birth_year" -> "standardize_country_gender"
      [] m = "standardize_country_gender" -> "clean_income"
      [] m = "clean_income" -> "save"
      [] m = "save" -> "done"
      [] OTHER -> Order[(CHOOSE j \in DOMAIN Order : Order[j] = m) + 1]

Succ(m) ==
    LET i == CHOOSE j \in DOMAIN Order : Order[j] = m
    IN  IF i = Len(Order) THEN "done" ELSE Order[i + 1]

(* ------------------------------- inputs -------------------------------- *)
RefRow ==
    [id |-> Some(<<"1">>),
     first_name |-> Some(<<"a","n","n">>),
     last_name |-> Some(<<"l","e","e">>),
     email |-> Some(<<"a","@","b",".","c">>),
     birth_year |-> Some(<<"1","9","9","0">>),
     country |-> Some(<<"U","S">>),
     gender |-> Some(<<"m","a","l","e">>),
     income |-> Some(<<"1","0">>)]

Row11 == [RefRow EXCEPT !.income = Some(<<"1","1">>)]

SampleRows ==
    << RefRow,
       Row11,
       [RefRow EXCEPT !.income = Some(<<"0">>), !.birth_year = Some(<<"2","0","2","5">>)],
       [Row11 EXCEPT !.first_name = Some(<<" ","A","n","n">>)],
       [Row11 EXCEPT !.id = Some(<<"2">>)],
       [Row11 EXCEPT !.gender = Some(<<"x">>)],
       [RefRow EXCEPT !.gender = Some(<<" ","M","a","l","e">>),
                      !.country = Some(<<"u","s"," ">>),
                      !.birth_year = Some(<<"1","9","0","0">>)],
       [RefRow EXCEPT !.email = Some(<<"a","@","b">>)],
       [RefRow EXCEPT !.email = Null],
       [RefRow EXCEPT !.birth_year = Some(<<"1","8","9","9">>)],
       [RefRow EXCEPT !.birth_year = Some(<<"2","0","2","6">>)],
       [RefRow EXCEPT !.birth_year = Some(<<"x">>)],
       [RefRow EXCEPT !.income = Some(<<"x">>)] >>

\* the bags of at most k rows drawn from the samples i, i + 1, ...
RECURSIVE FilesFrom(_, _)
FilesFrom(i, k) ==
    IF i > Len(SampleRows) \/ k = 0 THEN {EmptyBag}
    ELSE UNION {{IF c = 0 THEN b ELSE b (+) [r \in {SampleRows[i]} |-> c] :
                    b \in FilesFrom(i + 1, k - c)} : c \in 0..k}

\* the incomes of the scenario 10, 12, 13, 14, 15, 16, 1000000
ScenarioIncomes ==
    {<<"1","0">>, <<"1","2">>, <<"1","3">>, <<"1","4">>, <<"1","5">>, <<"1","6">>,
     <<"1","0","0","0","0","0","0">>}

ScenarioFile == SetToBag({[RefRow EXCEPT !.income = Some(t)] : t \in ScenarioIncomes})

InputFiles == FilesFrom(1, MaxRows) \cup {ScenarioFile}

\* the files of the runs in which the caller calls the methods itself
CallFiles == FilesFrom(1, MaxCallRows)

(* ------------------------------- actions ------------------------------- *)
\* DataCleaner.__init__ on `file`
Construct(file) ==
    /\ inp = file
    /\ df = read_csv(file)
    /\ schema = InferSchema(file)

Init ==
    /\ \E file \in InputFiles : Construct(file)
    /\ driver = "pipeline"
    /\ pc = Order[1]
    /\ steps = <<>>
    /\ last = "__init__"
    /\ err = ""
    /\ fence = <<>>
    /\ out = <<>>
    /\ run = 1

InitCalls ==
    /\ \E file \in CallFiles : Construct(file)
    /\ driver = "direct"
    /\ pc = "idle"
    /\ steps = <<>>
    /\ last = "__init__"
    /\ err = ""
    /\ fence = <<>>
    /\ out = <<>>
    /\ run = 1

Callable(m) ==
    \/ driver = "pipeline" /\ pc = m
    \/ driver = "direct"

\* the method returns (e = "") or raises e; a raise ends run_cleaning_pipeline
Return(m, e) ==
    /\ last' = m
    /\ err' = e
    /\ steps' = IF driver = "pipeline" THEN Append(steps, m) ELSE steps
    /\ pc' = IF driver # "pipeline" THEN pc
             ELSE IF e # "" THEN "aborted"
             ELSE Succ(m)
    /\ UNCHANGED <<inp, driver, run>>

initial_summary ==
    /\ Callable("initial_summary")
    /\ Return("initial_summary", "")
    /\ UNCHANGED <<df, schema, fence, out>>

drop_nulls ==
    /\ Callable("drop_nulls")
    /\ df' = drop_nulls_df(df)
    /\ Return("drop_nulls", "")
    /\ UNCHANGED <<schema, fence, out>>

remove_duplicates ==
    /\ Callable("remove_duplicates")
    /\ df' = unique(df)
    /\ Return("remove_duplicates", "")
    /\ UNCHANGED <<schema, fence, out>>

clean_names ==
    /\ Callable("clean_names")
    /\ df' = clean_names_df(df)
    /\ Return("clean_names", "")
    /\ UNCHANGED <<schema, fence, out>>

clean_email ==
    /\ Callable("clean_email")
    /\ df' = clean_email_df(df)
    /\ Return("clean_email", "")
    /\ UNCHANGED <<schema, fence, out>>

\* the result of a method: the table, the dtypes, what it raised and the
\* quartiles it computed (<<>> when it computed none)
Result(t, sch, e, f) == [df |-> t, schema |-> sch, err |-> e, fence |-> f]

\* mutant: a cast that is not strict, a value that is no number becoming null
clean_birth_year_lenient(t, sch) ==
    LET c == MapBag(t, [r \in DOMAIN t |-> [r EXCEPT !.birth_year =
                          IF CastableInt32(@, sch.birth_year)
                          THEN CastCell(@, sch.birth_year) ELSE Null]])
    IN  Result(FilterBirthYear(c, min_year, max_year),
               [sch EXCEPT !.birth_year = "Int32"], "", <<>>)

clean_birth_year_fn(t, sch) ==
    IF BirthYearCastable(t, sch)
    THEN Result(FilterBirthYear(CastBirthYear(t, sch), min_year, max_year),
                [sch EXCEPT !.birth_year = "Int32"], "", <<>>)
    ELSE Result(t, sch, "InvalidOperationError", <<>>)

\* the cast is assigned to self.df before the quantiles are read: of a column
\* with no value they are None, and None - None raises TypeError
clean_income_fn(t, sch) ==
    IF ~IncomeCastable(t, sch)
    THEN Result(t, sch, "InvalidOperationError", <<>>)
    ELSE LET c == CastIncome(t, sch)
             s == [sch EXCEPT !.income = "Float64"]
             B == Incomes(c)
         IN  IF DOMAIN B = {}
             THEN Result(c, s, "TypeError", <<>>)
             ELSE LET q1 == quantile(B, 1, 4)
                      q3 == quantile(B, 3, 4)
                  IN  Result(FilterIncome(c, q1, q3), s, "", Some([q1 |-> q1, q3 |-> q3]))

clean_birth_year ==
    /\ Callable("clean_birth_year")
    /\ LET r == clean_birth_year_fn(df, schema)
       IN  /\ df' = r.df
           /\ schema' = r.schema
           /\ Return("clean_birth_year", r.err)
    /\ UNCHANGED <<fence, out>>

clean_income ==
    /\ Callable("clean_income")
    /\ LET r == clean_income_fn(df, schema)
       IN  /\ df' = r.df
           /\ schema' = r.schema
           /\ fence' = IF r.fence = <<>> THEN fence ELSE r.fence
           /\ Return("clean_income", r.err)
    /\ UNCHANGED out

standardize_country_gender ==
    /\ Callable("standardize_country_gender")
    /\ df' = standardize_df(df)
    /\ Return("standardize_country_gender", "")
    /\ UNCHANGED <<schema, fence, out>>

save ==
    /\ Callable("save")
    /\ out' = Some(write_csv(df, schema))
    /\ Return("save", "")
    /\ UNCHANGED <<df, schema, fence>>

\* main.py, line 11: a DataCleaner built on the file the finished run wrote
Rerun ==
    /\ driver = "pipeline"
    /\ pc = "done"
    /\ run < MaxRuns
    /\ inp' = out[1]
    /\ df' = read_csv(out[1])
    /\ schema' = InferSchema(out[1])
    /\ pc' = Order[1]
    /\ steps' = <<>>
    /\ last' = "__init__"
    /\ err' = ""
    /\ fence' = <<>>
    /\ run' = run + 1
    /\ UNCHANGED <<driver, out>>

Method ==
    \/ initial_summary
    \/ drop_nulls
    \/ remove_duplicates
    \/ clean_names
    \/ clean_email
    \/ clean_birth_year
    \/ clean_income
    \/ standardize_country_gender
    \/ save

Next == Method \/ Rerun

Spec == Init /\ [][Next]_vars

\* the methods called one by one, in any order
SpecCalls == InitCalls /\ [][Method]_vars

(* ------------------------------- claims -------------------------------- *)
Finished == pc = "done"

IsPrefix(s, t) == Len(s) <= Len(t) /\ \A i \in DOMAIN s : s[i] = t[i]

\* C1: run_cleaning_pipeline calls initial_summary, drop_nulls, remove_duplicates,
\* clean_names, clean_email, clean_birth_year, clean_income,
\* standardize_country_gender and save, each once and in this order: the calls
\* made so far are always the first ones of that list, the call made next is
\* the one that follows them, and a finished run has made all nine, save last.
C1_PipelineOrder ==
    LET expected == <<"initial_summary", "drop_nulls", "remove_duplicates", "clean_names",
                      "clean_email", "clean_birth_year", "clean_income",
                      "standardize_country_gender", "save">>
    IN  /\ IsPrefix(steps, expected)
        /\ pc \notin {"done", "aborted"} => pc = expected[Len(steps) + 1]
        /\ Finished => steps = expected
        /\ (out # <<>> /\ run = 1) => steps = expected

C1_Witness == Finished /\ Len(steps) = 9 /\ steps[9] = "save" /\ Height(df) > 0

IsUpperNoSpace(s) ==
    /\ \A i \in DOMAIN s : s[i] \notin Range(Lower)
    /\ Len(s) > 0 => (s[1] \notin Whitespace /\ s[Len(s)] \notin Whitespace)

\* C2: in the table a finished run has saved, every row has a value in each of the
\* eight required fields, an email matching ^[\w.-]+@[\w.-]+\.\w+$, a birth_year
\* from 1900 to 2025, a gender among male, female and other, and a country in
\* upper case with no whitespace at either end; the file holds that table.
C2_OutputRowsValid ==
    Finished =>
        /\ \A r \in DOMAIN df :
              /\ \A f \in Required : ~IsNull(r[f])
              /\ EmailMatches(r.email[1])
              /\ 1900 <= r.birth_year[1] /\ r.birth_year[1] <= 2025
              /\ r.gender[1] \in {<<"m","a","l","e">>, <<"f","e","m","a","l","e">>,
                                  <<"o","t","h","e","r">>}
              /\ IsUpperNoSpace(r.country[1])
        /\ Height(out[1]) = Height(df)
        /\ \A w \in DOMAIN out[1] :
              /\ \A f \in Required : ~IsNull(w[f])
              /\ EmailMatches(w.email[1])
              /\ IsIntText(w.birth_year[1])
              /\ 1900 <= TextToInt(w.birth_year[1]) /\ TextToInt(w.birth_year[1]) <= 2025
              /\ IsUpperNoSpace(w.country[1])

\* a finished run that removed rows and kept rows, one of them normalised
C2_Witness ==
    /\ Finished
    /\ 0 < Height(df) /\ Height(df) < Height(inp)
    /\ \E r \in DOMAIN df : r \notin DOMAIN read_csv(inp)

\* C3: no two rows of the table a finished run has saved are equal in every field.
C3_NoDuplicateOutput == Finished => \A r \in DOMAIN df : df[r] = 1

\* C4: a second run, on the file a finished first run wrote, removes no row.
C4_SecondRunKeepsRows == (run = 2 /\ Finished) => Height(df) = Height(inp)

AllCastable(file) ==
    \A r \in DOMAIN file :
        /\ IsNull(r.birth_year) \/ IsIntText(r.birth_year[1])
        /\ IsNull(r.income) \/ IsFloatText(r.income[1])

\* C5: on a file with rows whose birth_year and income texts are all numbers,
\* run_cleaning_pipeline never raises, whatever rows its filters remove.
C5_NoRaiseOnCastableInput == (Height(inp) > 0 /\ AllCastable(inp)) => pc # "aborted"

HasUncastableYear ==
    /\ schema.birth_year = "String"
    /\ \E r \in DOMAIN df : ~IsNull(r.birth_year) /\ ~IsIntText(r.birth_year[1])

HasUncastableIncome ==
    /\ schema.income = "String"
    /\ \E r \in DOMAIN df : ~IsNull(r.income) /\ ~IsFloatText(r.income[1])

\* C6: when clean_birth_year or clean_income is called on a table with a value
\* that is no number, the call raises and drops no row, the run ends there, and
\* it never saves: the run that raised made no call to save, made none after the
\* one that raised, and the output file is as it was when the run began.
C6_CastFailureAborts ==
    /\ [][((pc = "clean_birth_year" /\ HasUncastableYear)
            \/ (pc = "clean_income" /\ HasUncastableIncome))
          => (pc' = "aborted" /\ err' = "InvalidOperationError" /\ df' = df /\ out' = out)]_vars
    /\ [][pc # "aborted"]_vars
    /\ []((pc = "aborted" /\ err = "InvalidOperationError")
          => /\ last \in {"clean_birth_year", "clean_income"}
             /\ steps[Len(steps)] = last
             /\ "save" \notin Range(steps)
             /\ out = (IF run = 1 THEN <<>> ELSE Some(inp)))

\* a run stopped by an income that is no number, after clean_birth_year passed
C6_Witness ==
    /\ pc = "aborted"
    /\ err = "InvalidOperationError"
    /\ last = "clean_income"
    /\ Height(df) > 1

\* four times the quantile num/4 of the sorted values s, by linear interpolation
\* between the two order statistics around the position (n - 1) * num / 4
LinearQuantile4(s, num) ==
    LET pos4 == num * (Len(s) - 1)
        lo == (pos4 \div 4) + 1
        rem == pos4 % 4
    IN  IF rem = 0 THEN 4 * s[lo] ELSE 4 * s[lo] + rem * (s[lo + 1] - s[lo])

IncomeStep == pc = "clean_income" /\ pc' = "standardize_country_gender"

CountBelow(B, v) == SumCounts(B, {x \in DOMAIN B : x < v})
CountUpTo(B, v) == SumCounts(B, {x \in DOMAIN B : x <= v})

\* v is the value at the 0-based rank k of the values of B in ascending order
IsOrderStat(B, k, v) == v \in DOMAIN B /\ CountBelow(B, v) <= k /\ k < CountUpTo(B, v)

\* v is the order statistic of B at the rank nearest to (n - 1) * num / 4, the
\* upper rank when two are as near
IsNearestQuantile(B, num, v) ==
    LET n == SumCounts(B, DOMAIN B)
    IN  \E k \in 0..(n - 1) : 4 * k - num * (n - 1) \in -1..2 /\ IsOrderStat(B, k, v)

EraseNames(r) == [r EXCEPT !.first_name = Null, !.last_name = Null]

\* C8: whatever methods are called and in whatever order, no call adds a row;
\* initial_summary leaves the table as it is, and clean_names keeps every row
\* and every field but first_name and last_name.
C8_RowCountAndFrames ==
    [][/\ Height(df') <= Height(df)
       /\ last' = "initial_summary" => (df' = df /\ schema' = schema)
       /\ last' = "clean_names" =>
             /\ Height(df') = Height(df)
             /\ MapBag(df', [r \in DOMAIN df' |-> EraseNames(r)])
                   = MapBag(df, [r \in DOMAIN df |-> EraseNames(r)])
             /\ schema' = schema]_vars

\* clean_names called on a table of two rows or more, with a name it rewrote
C8_Witness ==
    /\ last = "clean_names"
    /\ Height(df) > 1
    /\ Height(df) = Height(inp)
    /\ \E r \in DOMAIN df : r \notin DOMAIN read_csv(inp)

\* the rows of the input that reach clean_income: no null in a required field,
\* a matching email and a birth year from 1900 to 2025, each distinct row once
PopRows ==
    LET sch == InferSchema(inp)
    IN  {r \in DOMAIN read_csv(inp) :
            /\ \A f \in Required : ~IsNull(r[f])
            /\ EmailMatches(r.email[1])
            /\ IF sch.birth_year = "String"
               THEN /\ IsIntText(r.birth_year[1])
                    /\ TextToInt(r.birth_year[1]) \in 1900..2025
               ELSE r.birth_year[1] \in 1900..2025}

IncomeOf(r) ==
    IF InferSchema(inp).income = "String" THEN TextToFloat(r.income[1]) ELSE r.income[1]

Population ==
    LET vals == {IncomeOf(r) : r \in PopRows}
    IN  [v \in vals |-> Cardinality({r \in PopRows : IncomeOf(r) = v})]

Within(x, q1, q3) ==
    2 * x >= 2 * q1 - 3 * (q3 - q1) /\ 2 * x <= 2 * q3 + 3 * (q3 - q1)

\* C9: from clean_income's return to the end of the run the fence is the one of
\* the incomes of the rows left by drop_nulls, remove_duplicates, clean_email and
\* clean_birth_year, rows of an invalid gender included; it is not computed again
\* after standardize_country_gender, and every saved row has its income inside it.
C9_FenceBeforeGender ==
    pc \in {"standardize_country_gender", "save", "done"} =>
        /\ fence # <<>>
        /\ IsNearestQuantile(Population, 1, fence[1].q1)
        /\ IsNearestQuantile(Population, 3, fence[1].q3)
        /\ Finished => \A r \in DOMAIN df : Within(r.income[1], fence[1].q1, fence[1].q3)

\* a finished run in which the gender filter removed a row from inside the fence,
\* and the quartiles of the saved rows are not those of the fence
C9_Witness ==
    /\ Finished
    /\ Height(df) > 0
    /\ Cardinality({r \in PopRows : Within(IncomeOf(r), fence[1].q1, fence[1].q3)})
          > Height(df)
    /\ \/ ~IsNearestQuantile(Incomes(df), 1, fence[1].q1)
       \/ ~IsNearestQuantile(Incomes(df), 3, fence[1].q3)

IncomeIdempotent ==
    LET r1 == clean_income_fn(df, schema)
    IN  r1.err = "" =>
            LET r2 == clean_income_fn(r1.df, r1.schema)
            IN  r2.err = "" /\ r2.df = r1.df /\ r2.schema = r1.schema

\* C10, amended: each of drop_nulls, remove_duplicates, clean_names, clean_email,
\* clean_birth_year and standardize_country_gender, applied to its own result,
\* leaves it as it is (clean_income does not: it takes its fence anew from the
\* rows it kept).
C10_StepsIdempotentExceptIncome ==
    /\ drop_nulls_df(drop_nulls_df(df)) = drop_nulls_df(df)
    /\ unique(unique(df)) = unique(df)
    /\ clean_names_df(clean_names_df(df)) = clean_names_df(df)
    /\ clean_email_df(clean_email_df(df)) = clean_email_df(df)
    /\ standardize_df(standardize_df(df)) = standardize_df(df)
    /\ LET r1 == clean_birth_year_fn(df, schema)
       IN  r1.err = "" =>
               LET r2 == clean_birth_year_fn(r1.df, r1.schema)
               IN  r2.err = "" /\ r2.df = r1.df /\ r2.schema = r1.schema

\* C10 as the spec states it: every cleaning step is idempotent, clean_income too.
C10_EveryStepIdempotent == C10_StepsIdempotentExceptIncome /\ IncomeIdempotent

\* the result of standardize_country_gender, which removed a row and rewrote one
C10_Witness ==
    /\ last = "standardize_country_gender"
    /\ Height(df) \in 1..(Height(inp) - 1)
    /\ \E r \in DOMAIN df : r.gender \notin {w.gender : w \in DOMAIN inp}
    /\ \E w \in DOMAIN inp : w.gender = Some(<<"x">>) /\ w.email = Some(<<"a","@","b",".","c">>)

=============================================================================
